---- MODULE Spec2Model ----
(***************************************************************************)
(* View-graph robustification of openMVG (graph/connectedComponent.hpp):   *)
(*   KeepLargestCC_Nodes                  - largest connected component    *)
(*   CleanGraph_KeepLargestBiEdge_Nodes   - largest component once every   *)
(*                                          bridge has been erased         *)
(* An edge list is a sequence of pairs <<first, second>> of entity ids.    *)
(* UnionFind, indexedGraph and the LEMON graph library are not part of the *)
(* sources at hand: they are modelled from the design document.            *)
(* Spec drives the two functions; SpecUF drives a UnionFind object on its  *)
(* own; SpecFP drives a FeatureParams object (OpenMVG-GUI,                 *)
(* workflow_params/FeatureParams.cc).                                      *)
(***************************************************************************)
EXTENDS Integers, Sequences, FiniteSets, TLC

\* Bounds of the explored inputs.
MaxNode == 3
MaxLen == 2

\* Both functions are run on one and the same list only up to this length.
MaxLenBoth == 1

\* The largest number of sets a UnionFind object driven on its own is given.
MaxSets == 4

\* The largest width and height of an OpenCL image.
MaxDim == 2

\* Sentinel of an undefined index: the largest IndexT, all bits set, which is
\* never a dense index; written -1 because the integers here are signed.
UndefinedIndexT == -1

\* Iterator value lemon::INVALID.
INVALID == -1

EntityIds == 1..MaxNode

Pairs == EntityIds \X EntityIds

\* The scenarios of the design document, section 8, and small multigraphs.
PlainScenario == << <<1, 2>>, <<2, 3>>, <<4, 5>> >>

TwoTriangles ==
  << <<1, 2>>, <<2, 3>>, <<3, 1>>, <<3, 4>>, <<4, 5>>, <<5, 6>>, <<6, 4>> >>

TwoTrianglesLateFirst ==
  << <<4, 5>>, <<5, 6>>, <<6, 4>>, <<3, 4>>, <<1, 2>>, <<2, 3>>, <<3, 1>> >>

ParallelPairs ==
  << <<1, 2>>, <<2, 1>>, <<2, 3>>, <<3, 4>>, <<3, 4>> >>

TwoPairs == << <<3, 4>>, <<1, 2>> >>

TriangleWithTail ==
  << <<5, 6>>, <<1, 2>>, <<2, 3>>, <<3, 1>>, <<3, 4>> >>

\* Two components of three entities; the one seen first gets its first
\* entity attached to a pair that was merged before.
TiedTriples ==
  << <<1, 1>>, <<2, 3>>, <<4, 5>>, <<1, 4>>, <<3, 6>> >>

Scenarios ==
  {<< >>, PlainScenario, TwoTriangles, TwoTrianglesLateFirst, ParallelPairs,
   TwoPairs, TriangleWithTail, TiedTriples}

Min(a, b) == IF a < b THEN a ELSE b

SetMin(S) == CHOOSE x \in S : \A y \in S : x <= y

EmptyMap == [x \in {} |-> 0]

-----------------------------------------------------------------------------
(* Index registry: lines 164-175 of KeepLargestCC_Nodes.                   *)

\* if (node_to_index.count(id) == 0) node_to_index[id] = i++;
\* st = [map, i]
RegisterOrGet(st, id) ==
  IF id \in DOMAIN st.map
    THEN st
    ELSE [map |-> st.map @@ (id :> st.i), i |-> st.i + 1]

\* The first loop registering the second element of a pair before the first.
RECURSIVE IndexNodesFromSecondFirst(_, _)
IndexNodesFromSecondFirst(es, st) ==
  IF es = << >>
    THEN st
    ELSE IndexNodesFromSecondFirst(Tail(es),
           RegisterOrGet(RegisterOrGet(st, Head(es)[2]), Head(es)[1]))

RECURSIVE IndexNodesFrom(_, _)
IndexNodesFrom(es, st) ==
  IF es = << >>
    THEN st
    ELSE IndexNodesFrom(Tail(es),
                        RegisterOrGet(RegisterOrGet(st, Head(es)[1]), Head(es)[2]))

\* std::map<IndexT, unsigned int> node_to_index after the first loop.
IndexNodes(es) == IndexNodesFrom(es, [map |-> EmptyMap, i |-> 0]).map

-----------------------------------------------------------------------------
(* Disjoint-set forest (openMVG/tracks/union_find.hpp, design section 4.1) *)

\* init(n): n singleton sets, each its own root, size 1.
InitSets(n) ==
  [m_cc_parent |-> [x \in 0..(n - 1) |-> x],
   m_cc_size   |-> [x \in 0..(n - 1) |-> 1]]

\* find(x): the representative of x's set.
RECURSIVE Find(_, _)
Find(uf, x) ==
  IF uf.m_cc_parent[x] = x THEN x ELSE Find(uf, uf.m_cc_parent[x])

\* Link leaving the size of the surviving root as it was.
LinkWithoutSize(uf, a, b) ==
  [m_cc_parent |-> [uf.m_cc_parent EXCEPT ![b] = a],
   m_cc_size   |-> uf.m_cc_size]

\* Link counting the attached set as one element.
LinkAddingOne(uf, a, b) ==
  [m_cc_parent |-> [uf.m_cc_parent EXCEPT ![b] = a],
   m_cc_size   |-> [uf.m_cc_size EXCEPT ![a] = uf.m_cc_size[a] + 1]]

\* Attach root b under root a, a's size becoming the combined cardinality.
Link(uf, a, b) ==
  [m_cc_parent |-> [uf.m_cc_parent EXCEPT ![b] = a],
   m_cc_size   |-> [uf.m_cc_size EXCEPT ![a] = uf.m_cc_size[a] + uf.m_cc_size[b]]]

\* union(x, y): a no-op on one set; otherwise the two sets are merged.  Which
\* of the two roots survives is left to the implementation by the design
\* document, so both outcomes are kept.
Union(uf, x, y) ==
  LET i == Find(uf, x)
      j == Find(uf, y)
  IN IF i = j THEN {uf} ELSE {Link(uf, i, j), Link(uf, j, i)}

-----------------------------------------------------------------------------
(* KeepLargestCC_Nodes, lines 177-233.                                     *)

\* Lines 183-186: uf.Union(node_to_index[first], node_to_index[second]) for
\* every edge in turn; the set of forests the loop can end in.
RECURSIVE MergeEdges(_, _, _)
MergeEdges(es, m, ufs) ==
  IF es = << >>
    THEN ufs
    ELSE MergeEdges(Tail(es), m,
                    UNION {Union(u, m[Head(es)[1]], m[Head(es)[2]]) : u \in ufs})

\* Lines 190-194: the roots of every edge's first endpoint.
ParentIds(es, m, u) == {Find(u, m[es[k][1]]) : k \in 1..Len(es)}

\* Lines 200-204: both endpoints of every edge.
AllIds(es) == {es[k][1] : k \in 1..Len(es)} \cup {es[k][2] : k \in 1..Len(es)}

\* Lines 214-215 comparing the root, not the size, with the best size.
UpdateMaxCCByRoot(u, best, root) ==
  IF root > best[2] THEN <<root, u.m_cc_size[root]>> ELSE best

\* Lines 212-216 with the strict comparison replaced by >=.
UpdateMaxCCNotStrict(u, best, root) ==
  IF u.m_cc_size[root] >= best[2] THEN <<root, u.m_cc_size[root]>> ELSE best

\* Lines 214-215: if (uf.m_cc_size[id] > max_cc.second) max_cc = (id, size).
UpdateMaxCC(u, best, root) ==
  IF u.m_cc_size[root] > best[2] THEN <<root, u.m_cc_size[root]>> ELSE best

\* Lines 210-217: the roots are visited in the ascending order of std::set.
RECURSIVE ScanRoots(_, _, _)
ScanRoots(u, roots, best) ==
  IF roots = {}
    THEN best
    ELSE LET r == SetMin(roots)
         IN ScanRoots(u, roots \ {r}, UpdateMaxCC(u, best, r))

MaxCC(u, roots) == ScanRoots(u, roots, <<UndefinedIndexT, 0>>)

\* Lines 222-229 collecting the largest root itself instead of the entities.
CollectOfRootAsIndex(es, m, u, root) ==
  {Find(u, m[es[k][1]]) : k \in {j \in 1..Len(es) : Find(u, m[es[j][1]]) = root}}

\* Lines 222-229 without the insert of pair_it.first.
CollectOfRootSecondOnly(es, m, u, root) ==
  {es[k][2] : k \in {j \in 1..Len(es) : Find(u, m[es[j][1]]) = root}}

\* Lines 222-229: both endpoints of every edge whose first endpoint has the
\* largest root.
CollectOfRoot(es, m, u, root) ==
  LET ks == {k \in 1..Len(es) : Find(u, m[es[k][1]]) = root}
  IN {es[k][1] : k \in ks} \cup {es[k][2] : k \in ks}

\* Lines 196-232 without the single-root shortcut's second insert.
NodeIdsFirstOnly(es, m, u, roots, best) ==
  IF Cardinality(roots) = 1
    THEN {es[k][1] : k \in 1..Len(es)}
    ELSE IF best[1] # UndefinedIndexT
           THEN CollectOfRoot(es, m, u, best[1])
           ELSE {}

\* Lines 196-232: node_ids.
NodeIds(es, m, u, roots, best) ==
  IF Cardinality(roots) = 1
    THEN AllIds(es)
    ELSE IF best[1] # UndefinedIndexT
           THEN CollectOfRoot(es, m, u, best[1])
           ELSE {}

-----------------------------------------------------------------------------
(* The graph of CleanGraph_KeepLargestBiEdge_Nodes: graph::indexedGraph    *)
(* over lemon::ListGraph (design section 3, "Graph (mutable view)", and    *)
(* section 4.4 step 1).  Nodes are the dense indices 0..n-1 of the index   *)
(* registry, edge k (1..m) is the k-th pair of the list, and erasing an    *)
(* edge only takes it out of the set of live edges.                        *)

\* graph::indexedGraph putativeGraph(edges), line 67.
indexedGraph(es) ==
  LET m == IndexNodes(es)
  IN [n     |-> Cardinality(DOMAIN m),
      ends  |-> [k \in 1..Len(es) |-> <<m[es[k][1]], m[es[k][2]]>>],
      alive |-> 1..Len(es),
      map_nodeMapIndex |->
        [x \in 0..(Cardinality(DOMAIN m) - 1) |->
           CHOOSE id \in DOMAIN m : m[id] = x]]

Nodes(g) == 0..(g.n - 1)

\* putativeGraph.g.erase(edge)
EraseEdge(g, e) == [g EXCEPT !.alive = @ \ {e}]

\* The live edges at node u, in ascending edge order.
RECURSIVE SortedSeq(_)
SortedSeq(S) ==
  IF S = {} THEN << >> ELSE <<SetMin(S)>> \o SortedSeq(S \ {SetMin(S)})

IncidentEdges(g, u) == {e \in g.alive : u \in {g.ends[e][1], g.ends[e][2]}}

OtherEnd(g, e, u) == IF g.ends[e][1] = u THEN g.ends[e][2] ELSE g.ends[e][1]

\* Edge iteration (Graph::EdgeIt, EdgeMap::MapIt): first edge and successor.
\* The successor of an edge is the next live edge after it, whether or not
\* the edge itself is still live.
FirstEdge(g) == IF g.alive = {} THEN INVALID ELSE SetMin(g.alive)

NextEdge(g, e) ==
  LET later == {x \in g.alive : x > e}
  IN IF later = {} THEN INVALID ELSE SetMin(later)

-----------------------------------------------------------------------------
(* lemon::biEdgeConnectedCutEdges (design section 4.4 step 2): depth-first *)
(* low-link bridge finding.  The tree edge by which a node was entered is  *)
(* skipped by edge identity, so a second edge between the same two nodes   *)
(* counts as a back edge.                                                  *)
(* st = [disc, low : node -> time (-1: not reached), time, cut : edges]    *)

\* Whether the scan at u leaves out edge e, when u was entered by edge pe.
SkipsEdge(g, u, pe, e) == e = pe

RECURSIVE BridgeVisit(_, _, _, _)
RECURSIVE BridgeScan(_, _, _, _, _)
BridgeScan(g, u, pe, es, st) ==
  IF es = << >>
    THEN st
    ELSE LET e == Head(es)
             v == OtherEnd(g, e, u)
         IN IF SkipsEdge(g, u, pe, e)
              THEN BridgeScan(g, u, pe, Tail(es), st)
              ELSE IF st.disc[v] = -1
                THEN LET s1 == BridgeVisit(g, v, e, st)
                         s2 == [s1 EXCEPT
                                  !.low[u] = Min(s1.low[u], s1.low[v]),
                                  !.cut = IF s1.low[v] > s1.disc[u]
                                            THEN @ \cup {e} ELSE @]
                     IN BridgeScan(g, u, pe, Tail(es), s2)
                ELSE BridgeScan(g, u, pe, Tail(es),
                                [st EXCEPT !.low[u] = Min(@, st.disc[v])])

BridgeVisit(g, u, pe, st) ==
  BridgeScan(g, u, pe, SortedSeq(IncidentEdges(g, u)),
             [st EXCEPT !.disc[u] = st.time, !.low[u] = st.time,
                        !.time = st.time + 1])

RECURSIVE BridgeRoots(_, _, _)
BridgeRoots(g, todo, st) ==
  IF todo = {}
    THEN st
    ELSE LET u == SetMin(todo)
         IN BridgeRoots(g, todo \ {u},
                        IF st.disc[u] = -1
                          THEN BridgeVisit(g, u, INVALID, st) ELSE st)

\* The set of edges whose cutMap entry is set; its cardinality is the value
\* biEdgeConnectedCutEdges returns.
CutEdges(g) ==
  BridgeRoots(g, Nodes(g),
              [disc |-> [x \in Nodes(g) |-> -1],
               low  |-> [x \in Nodes(g) |-> -1],
               time |-> 0,
               cut  |-> {}]).cut

biEdgeConnectedCutEdges(g) == [e \in g.alive |-> e \in CutEdges(g)]

-----------------------------------------------------------------------------
(* lemon::connectedComponents / countConnectedComponents (design section   *)
(* 4.4 step 4): a labelling pass over the nodes in ascending order; every  *)
(* node not yet labelled starts the next component.                        *)

RECURSIVE Flood(_, _, _)
Flood(g, seen, frontier) ==
  IF frontier = {}
    THEN seen
    ELSE LET new == {v \in Nodes(g) :
                  /\ v \notin seen
                  /\ \E u \in frontier : \E e \in IncidentEdges(g, u) :
                       OtherEnd(g, e, u) = v}
         IN Flood(g, seen \cup new, new)

RECURSIVE LabelFrom(_, _, _, _)
LabelFrom(g, todo, compMap, compNum) ==
  IF todo = {}
    THEN [map |-> compMap, count |-> compNum]
    ELSE LET n == SetMin(todo)
         IN IF n \in DOMAIN compMap
              THEN LabelFrom(g, todo \ {n}, compMap, compNum)
              ELSE LET comp == Flood(g, {n}, {n})
                   IN LabelFrom(g, todo \ {n},
                                compMap @@ [x \in comp |-> compNum],
                                compNum + 1)

connectedComponents(g) == LabelFrom(g, Nodes(g), EmptyMap, 0).map

countConnectedComponents(g) == LabelFrom(g, Nodes(g), EmptyMap, 0).count

-----------------------------------------------------------------------------
(* exportGraphToMapSubgraphs, lines 26-47.                                 *)

\* Lines 26-47 exporting only the nodes that still have an edge.
exportGraphToMapSubgraphsOfEdges(g) ==
  LET connectedNodeMap == connectedComponents(g)
      kept == {x \in Nodes(g) : IncidentEdges(g, x) # {}}
      labels == {connectedNodeMap[x] : x \in kept}
  IN [l \in labels |-> {x \in kept : connectedNodeMap[x] = l}]

\* map_subgraphs[*it].insert(itNode) for every node.
exportGraphToMapSubgraphs(g) ==
  LET connectedNodeMap == connectedComponents(g)
      labels == {connectedNodeMap[x] : x \in Nodes(g)}
  IN [l \in labels |-> {x \in Nodes(g) : connectedNodeMap[x] = l}]

-----------------------------------------------------------------------------
(* CleanGraph_KeepLargestBiEdge_Nodes, lines 98-141.                       *)

\* Lines 80-83 with the test of the mark inverted.
EraseUnlessCut(g, cm, e) == IF cm[e] THEN g ELSE EraseEdge(g, e)

\* Lines 80-83 never erasing.
EraseNever(g, cm, e) == g

\* Lines 80-83: if (*it) putativeGraph.g.erase(itEdge).
EraseIfCut(g, cm, e) == IF cm[e] THEN EraseEdge(g, e) ELSE g

\* Lines 104-108 with the strict comparison replaced by >=.
UpdateLargestNotStrict(subs, best, l) ==
  IF Cardinality(subs[l]) >= best.count
    THEN [count |-> Cardinality(subs[l]), iter |-> l]
    ELSE best

\* Lines 104-108: if (iter->second.size() > count) { count = ...; iterLargestCC = iter; }
UpdateLargest(subs, best, l) ==
  IF Cardinality(subs[l]) > best.count
    THEN [count |-> Cardinality(subs[l]), iter |-> l]
    ELSE best

\* Lines 99-110: the map is visited in ascending key order.
RECURSIVE ScanSubgraphs(_, _, _)
ScanSubgraphs(subs, todo, best) ==
  IF todo = {}
    THEN best
    ELSE LET l == SetMin(todo)
         IN ScanSubgraphs(subs, todo \ {l}, UpdateLargest(subs, best, l))

\* iterLargestCC (INVALID stands for map_subgraphs.end()).
LargestCC(subs) ==
  ScanSubgraphs(subs, DOMAIN subs, [count |-> 0, iter |-> INVALID]).iter

\* Lines 119-125 inserting the node instead of its original identifier.
IdsOfNodesUnmapped(g, ccSet) == ccSet

\* Lines 119-125: Id = (*putativeGraph.map_nodeMapIndex)[*iter2].
IdsOfNodes(g, ccSet) == {g.map_nodeMapIndex[x] : x \in ccSet}

\* Lines 130-139 erasing the nodes of the set together with their edges.
EraseNodesOf(g, ccSet) ==
  [g EXCEPT !.alive = {e \in @ : \A u \in ccSet : e \notin IncidentEdges(g, u)},
            !.n = @ - Cardinality(ccSet)]

\* Lines 130-139: every edge at a node of the set is erased.
EraseEdgesOf(g, ccSet) ==
  [g EXCEPT !.alive = {e \in @ : \A u \in ccSet : e \notin IncidentEdges(g, u)}]

\* Lines 113-141 without the test of line 115: every component loses its
\* edges, the largest one too.
RECURSIVE PruneEvery(_, _, _, _)
PruneEvery(g, subs, todo, largest) ==
  IF todo = {}
    THEN g
    ELSE LET l == SetMin(todo)
         IN PruneEvery(EraseEdgesOf(g, subs[l]), subs, todo \ {l}, largest)

\* Lines 113-141: every component but the largest loses its edges.
RECURSIVE PruneOthers(_, _, _, _)
PruneOthers(g, subs, todo, largest) ==
  IF todo = {}
    THEN g
    ELSE LET l == SetMin(todo)
         IN PruneOthers(IF l = largest THEN g ELSE EraseEdgesOf(g, subs[l]),
                        subs, todo \ {l}, largest)

-----------------------------------------------------------------------------
(* FeatureParams (OpenMVG-GUI/workflow_params/FeatureParams.cc).  An image  *)
(* describer is recorded by how createDescriber builds it: its class, the  *)
(* descriptor handed to its Params, the orientation argument of the        *)
(* constructor (<<flag>>, or << >> when none is passed) and the preset     *)
(* given to Set_configuration_preset.                                      *)

FeatureTypes ==
  {"FEATURE_TYPE_SIFT", "FEATURE_TYPE_SIFT_ANATOMY",
   "FEATURE_TYPE_AKAZE_FLOAT", "FEATURE_TYPE_AKAZE_MLDB"}

FeaturePresets ==
  {"FEATURE_PRESET_NORMAL", "FEATURE_PRESET_HIGH", "FEATURE_PRESET_ULTRA"}

nullptr ==
  [class |-> "nullptr", descriptor |-> "none", orientation |-> << >>,
   preset |-> "none"]

\* Lines 116-139: the describer made for m_feat_type.
MakeDescriber(type, upright) ==
  CASE type = "FEATURE_TYPE_SIFT" ->
         [class |-> "SIFT_Image_describer", descriptor |-> "none",
          orientation |-> <<~upright>>, preset |-> "none"]
    [] type = "FEATURE_TYPE_SIFT_ANATOMY" ->
         [class |-> "SIFT_Anatomy_Image_describer", descriptor |-> "none",
          orientation |-> << >>, preset |-> "none"]
    [] type = "FEATURE_TYPE_AKAZE_FLOAT" ->
         [class |-> "AKAZE_Image_describer", descriptor |-> "AKAZE_MSURF",
          orientation |-> <<~upright>>, preset |-> "none"]
    [] type = "FEATURE_TYPE_AKAZE_MLDB" ->
         [class |-> "AKAZE_Image_describer", descriptor |-> "AKAZE_MLDB",
          orientation |-> <<~upright>>, preset |-> "none"]
    [] OTHER -> nullptr

\* Lines 142-158: the switch on m_feat_preset.
Set_configuration_preset(d, preset) ==
  CASE preset = "FEATURE_PRESET_NORMAL" -> [d EXCEPT !.preset = "NORMAL_PRESET"]
    [] preset = "FEATURE_PRESET_HIGH" -> [d EXCEPT !.preset = "HIGH_PRESET"]
    [] preset = "FEATURE_PRESET_ULTRA" -> [d EXCEPT !.preset = "ULTRA_PRESET"]
    [] OTHER -> d

\* Lines 112-160: createDescriber(), the value m_describer is left with.
createDescriber(type, preset, upright) ==
  LET d == MakeDescriber(type, upright)
  IN IF d # nullptr THEN Set_configuration_preset(d, preset) ELSE d

-----------------------------------------------------------------------------
(* In-place ImageAdd, ImageSub and ImageMul of                             *)
(* openMVG/image/gpu/image_gpu_arithmetics.cpp (lines 139-245, 365-470 and *)
(* 591-696; the three differ in the kernel names only).  An image object   *)
(* is recorded by what clGetImageInfo reports about it.                    *)

ChannelTypes == {"CL_UNSIGNED_INT8", "CL_FLOAT", "CL_SIGNED_INT16"}

ChannelOrders == {"CL_R", "CL_RGBA"}

Images ==
  [image_channel_data_type : ChannelTypes,
   image_channel_order : ChannelOrders,
   width : 1..MaxDim,
   height : 1..MaxDim]

NoImage ==
  [image_channel_data_type |-> "none", image_channel_order |-> "none",
   width |-> 0, height |-> 0]

NoFormat == [image_channel_data_type |-> "none", image_channel_order |-> "none"]

\* The locals of the function before any of them is written.
NoLocals ==
  [formatA |-> NoFormat, formatB |-> NoFormat, formatRes |-> NoFormat,
   widthA |-> 0, widthB |-> 0, widthRes |-> 0,
   heightA |-> 0, heightB |-> 0, heightRes |-> 0]

\* The clGetImageInfo calls in the order of lines 142-203, each named after
\* the local it fills.
Queries ==
  <<"formatA", "formatB", "formatRes", "widthA", "widthB", "widthRes",
    "heightA", "heightB", "heightRes">>

\* What clGetImageInfo writes for each call when it succeeds.
clGetImageInfo(a, b, r, query) ==
  LET Format(img) ==
        [image_channel_data_type |-> img.image_channel_data_type,
         image_channel_order |-> img.image_channel_order]
  IN CASE query = "formatA" -> Format(a)
       [] query = "formatB" -> Format(b)
       [] query = "formatRes" -> Format(r)
       [] query = "widthA" -> a.width
       [] query = "widthB" -> b.width
       [] query = "widthRes" -> r.width
       [] query = "heightA" -> a.height
       [] query = "heightB" -> b.height
       [] query = "heightRes" -> r.height

\* Where the function goes on after a successful call.
AfterQuery(query) ==
  CASE query = "formatA" -> "formatB"
    [] query = "formatB" -> "formatRes"
    [] query = "formatRes" -> "checkFormats"
    [] query = "widthA" -> "widthB"
    [] query = "widthB" -> "widthRes"
    [] query = "widthRes" -> "heightA"
    [] query = "heightA" -> "heightB"
    [] query = "heightB" -> "heightRes"
    [] query = "heightRes" -> "checkSizes"

\* Lines 160-163: the test on the formats.
FormatsDiffer(l) ==
  \/ l.formatA.image_channel_data_type # l.formatB.image_channel_data_type
  \/ l.formatA.image_channel_order # l.formatB.image_channel_order
  \/ l.formatA.image_channel_data_type # l.formatRes.image_channel_data_type
  \/ l.formatA.image_channel_order # l.formatRes.image_channel_order

\* Lines 205-208 without the comparisons with the result image.
SizesDifferIgnoringRes(l) ==
  \/ l.widthA # l.widthB
  \/ l.heightA # l.heightB

\* Lines 205-208: the test on the sizes.
SizesDiffer(l) ==
  \/ l.widthA # l.widthB
  \/ l.heightA # l.heightB
  \/ l.widthA # l.widthRes
  \/ l.heightA # l.heightRes

\* Lines 215-227, 440-452 and 666-678: the standard kernel of the function
\* for a channel data type, "none" standing for the return of the else branch.
StandardKernel(fn, dataType) ==
  CASE dataType = "CL_UNSIGNED_INT8" ->
         (CASE fn = "ImageAdd" -> "image_add_ui"
            [] fn = "ImageSub" -> "image_sub_ui"
            [] fn = "ImageMul" -> "image_mul_ui")
    [] dataType = "CL_FLOAT" ->
         (CASE fn = "ImageAdd" -> "image_add_f"
            [] fn = "ImageSub" -> "image_sub_f"
            [] fn = "ImageMul" -> "image_mul_f")
    [] OTHER -> "none"

-----------------------------------------------------------------------------
VARIABLES
  edges,            \* the edge list handed to the functions
  pcCC,             \* KeepLargestCC_Nodes: "idle" or "returned"
  node_to_index,    \* KeepLargestCC_Nodes: registry
  uf,               \* KeepLargestCC_Nodes: forest after the merge loop
  parent_id,        \* KeepLargestCC_Nodes: set of roots
  max_cc,           \* KeepLargestCC_Nodes: <<root, size>>
  node_ids,         \* KeepLargestCC_Nodes: returned set
  pcBi,             \* CleanGraph_...: "idle", "bridges", "select", "returned"
  putativeGraph,    \* CleanGraph_...: the graph being mutated
  cutMap,           \* CleanGraph_...: edge -> marked as a bridge
  itEdge,           \* CleanGraph_...: position of the bridge loop
  map_subgraphs,    \* CleanGraph_...: component label -> nodes
  iterLargestCC,    \* CleanGraph_...: label of the selected component
  largestBiEdgeCC,  \* CleanGraph_...: returned set
  staleIterators,   \* CleanGraph_...: iterators stepped from an erased edge
  lastUnion,        \* UnionFind: the last Union call and the forest before it
  m_feat_type,      \* FeatureParams: feature type
  m_feat_preset,    \* FeatureParams: preset
  m_upright,        \* FeatureParams: upright flag
  m_describer,      \* FeatureParams: the image describer
  lastCall,         \* FeatureParams: the last member function called
  gpu_pc,           \* ImageAdd/Sub/Mul (in place): position in the function
  gpu_fn,           \* ImageAdd/Sub/Mul: which of the three was called
  imgA,             \* ImageAdd/Sub/Mul: first image
  imgB,             \* ImageAdd/Sub/Mul: second image
  res,              \* ImageAdd/Sub/Mul: pre-allocated result image
  locals,           \* ImageAdd/Sub/Mul: formatA .. heightRes as read
  krn,              \* ImageAdd/Sub/Mul: the kernel selected
  kernelArgs,       \* ImageAdd/Sub/Mul: arguments given to clSetKernelArg
  kernelRun,        \* ImageAdd/Sub/Mul: outcome of ctx.runKernel2d
  failedQuery,      \* ImageAdd/Sub/Mul: the clGetImageInfo call that failed
  gpu_ret           \* ImageAdd/Sub/Mul: value returned

plainVars == <<pcCC, node_to_index, uf, parent_id, max_cc, node_ids>>

biVars ==
  <<pcBi, putativeGraph, cutMap, itEdge, map_subgraphs, iterLargestCC,
    largestBiEdgeCC, staleIterators>>

ufVars == <<lastUnion>>

fpVars == <<m_feat_type, m_feat_preset, m_upright, m_describer, lastCall>>

gpuVars ==
  <<gpu_pc, gpu_fn, imgA, imgB, res, locals, krn, kernelArgs, kernelRun,
    failedQuery, gpu_ret>>

vars == <<edges, plainVars, biVars, ufVars, fpVars, gpuVars>>

\* No Union call has been made yet.
NoUnion == [a |-> INVALID, b |-> INVALID, before |-> InitSets(0)]

\* Neither function of connectedComponent.hpp has been called, and the
\* UnionFind object holds no set.
GraphIdle ==
  /\ pcCC = "idle"
  /\ node_to_index = EmptyMap
  /\ uf = InitSets(0)
  /\ parent_id = {}
  /\ max_cc = <<UndefinedIndexT, 0>>
  /\ node_ids = {}
  /\ pcBi = "idle"
  /\ putativeGraph = indexedGraph(<< >>)
  /\ cutMap = EmptyMap
  /\ itEdge = INVALID
  /\ map_subgraphs = EmptyMap
  /\ iterLargestCC = INVALID
  /\ largestBiEdgeCC = {}
  /\ staleIterators = {}
  /\ lastUnion = NoUnion

\* None of the three image functions has been called.
GpuIdle ==
  /\ gpu_pc = "idle"
  /\ gpu_fn = "none"
  /\ imgA = NoImage
  /\ imgB = NoImage
  /\ res = NoImage
  /\ locals = NoLocals
  /\ krn = "none"
  /\ kernelArgs = << >>
  /\ kernelRun = "none"
  /\ failedQuery = "none"
  /\ gpu_ret = "none"

\* Lines 28-37: FeatureParams(type, preset, upright).
FeatureParams(type, preset, upright) ==
  /\ m_feat_type = type
  /\ m_feat_preset = preset
  /\ m_upright = upright
  /\ m_describer = createDescriber(type, preset, upright)
  /\ lastCall = <<"FeatureParams", type>>

Init ==
  /\ edges \in Scenarios
  /\ GraphIdle
  /\ FeatureParams("FEATURE_TYPE_SIFT", "FEATURE_PRESET_NORMAL", FALSE)
  /\ GpuIdle

\* The caller appends one more pair to the list it is going to pass.
AddEdge ==
  /\ pcCC = "idle"
  /\ pcBi = "idle"
  /\ Len(edges) < MaxLen
  /\ \E p \in Pairs : edges' = Append(edges, p)
  /\ UNCHANGED <<plainVars, biVars, ufVars, fpVars, gpuVars>>

\* Lines 164-233: the registry, the forest, the roots and the returned set.
KeepLargestCC_Run ==
  /\ LET m == IndexNodes(edges)
     IN \E u \in MergeEdges(edges, m, {InitSets(Cardinality(DOMAIN m))}) :
          LET roots == ParentIds(edges, m, u)
              best  == IF Cardinality(roots) = 1
                         THEN <<UndefinedIndexT, 0>>
                         ELSE MaxCC(u, roots)
          IN /\ node_to_index' = m
             /\ uf' = u
             /\ parent_id' = roots
             /\ max_cc' = best
             /\ node_ids' = NodeIds(edges, m, u, roots, best)
  /\ pcCC' = "returned"
  /\ UNCHANGED <<edges, biVars, ufVars, fpVars, gpuVars>>

\* KeepLargestCC_Nodes treating an empty edge list as an error.
KeepLargestCC_NodesRejectingEmpty ==
  /\ pcCC = "idle"
  /\ pcBi = "idle"
  /\ edges # << >>
  /\ KeepLargestCC_Run

\* One call of KeepLargestCC_Nodes(edges), lines 158-233.
KeepLargestCC_Nodes ==
  /\ pcCC = "idle"
  /\ pcBi = "idle"
  /\ KeepLargestCC_Run

\* CleanGraph_KeepLargestBiEdge_Nodes(edges), lines 60-77: the graph is built,
\* the bridges are marked, and the erasing loop is entered when there are any.
BiEdge_Start ==
  /\ pcBi = "idle"
  /\ pcCC = "idle" \/ Len(edges) <= MaxLenBoth
  /\ LET g == indexedGraph(edges)
         cm == biEdgeConnectedCutEdges(g)
         entered == Cardinality({e \in DOMAIN cm : cm[e]}) > 0
     IN /\ putativeGraph' = g
        /\ cutMap' = cm
        /\ itEdge' = IF entered THEN FirstEdge(g) ELSE INVALID
        /\ pcBi' = IF entered THEN "bridges" ELSE "select"
  /\ UNCHANGED <<edges, plainVars, ufVars, fpVars, gpuVars, map_subgraphs,
                 iterLargestCC, largestBiEdgeCC, staleIterators>>

\* The iterators named in its are stepped (++) in graph h; they count as
\* stale when the edge they stand on is no longer in h.
SteppedFrom(h, e, its) == IF e \in h.alive THEN {} ELSE its

\* One turn of the loop of lines 78-84: erase the edge when it is marked,
\* then step both iterators (++it, ++itEdge), whatever the body did.
BiEdge_EraseStep ==
  /\ pcBi = "bridges"
  /\ itEdge # INVALID
  /\ putativeGraph' = EraseIfCut(putativeGraph, cutMap, itEdge)
  /\ itEdge' = NextEdge(putativeGraph', itEdge)
  /\ staleIterators' =
       staleIterators \cup SteppedFrom(putativeGraph', itEdge, {"it", "itEdge"})
  /\ UNCHANGED <<edges, plainVars, ufVars, fpVars, gpuVars, pcBi, cutMap,
                 map_subgraphs, iterLargestCC, largestBiEdgeCC>>

\* The loop of lines 78-84 ends when the iterator is INVALID.
BiEdge_LoopExit ==
  /\ pcBi = "bridges"
  /\ itEdge = INVALID
  /\ pcBi' = "select"
  /\ UNCHANGED <<edges, plainVars, ufVars, fpVars, gpuVars, putativeGraph,
                 cutMap, itEdge, map_subgraphs, iterLargestCC, largestBiEdgeCC,
                 staleIterators>>

\* Lines 87-151: the components are counted and exported, the largest is
\* selected, its identifiers are returned and the others lose their edges.
BiEdge_Select ==
  /\ pcBi = "select"
  /\ IF countConnectedComponents(putativeGraph) >= 1
       THEN LET subs == exportGraphToMapSubgraphs(putativeGraph)
                largest == LargestCC(subs)
            IN /\ map_subgraphs' = subs
               /\ iterLargestCC' = largest
               /\ largestBiEdgeCC' =
                    IF largest \in DOMAIN subs
                      THEN IdsOfNodes(putativeGraph, subs[largest])
                      ELSE {}
               /\ putativeGraph' =
                    PruneOthers(putativeGraph, subs, DOMAIN subs, largest)
               /\ staleIterators' =
                    staleIterators \cup
                      UNION {SteppedFrom(putativeGraph', k, {"e"}) :
                               k \in putativeGraph.alive}
       ELSE UNCHANGED <<map_subgraphs, iterLargestCC, largestBiEdgeCC,
                        putativeGraph, staleIterators>>
  /\ pcBi' = "returned"
  /\ UNCHANGED <<edges, plainVars, ufVars, fpVars, gpuVars, cutMap, itEdge>>

-----------------------------------------------------------------------------
(* The UnionFind object driven directly: InitSets(n), then Union calls on  *)
(* indices of [0, n).                                                      *)

UF_InitSets ==
  /\ \E n \in 1..MaxSets : uf' = InitSets(n)
  /\ lastUnion' = NoUnion
  /\ UNCHANGED <<edges, pcCC, node_to_index, parent_id, max_cc, node_ids,
                 biVars, fpVars, gpuVars>>

UF_Union ==
  /\ \E a \in DOMAIN uf.m_cc_parent, b \in DOMAIN uf.m_cc_parent :
       /\ uf' \in Union(uf, a, b)
       /\ lastUnion' = [a |-> a, b |-> b, before |-> uf]
  /\ UNCHANGED <<edges, pcCC, node_to_index, parent_id, max_cc, node_ids,
                 biVars, fpVars, gpuVars>>

-----------------------------------------------------------------------------
(* The member functions of FeatureParams.                                  *)

\* Lines 50-56: the describer is rebuilt when the argument differs from
\* m_feat_type; m_feat_type itself is not assigned.
setType(type) ==
  /\ m_describer' =
       IF type # m_feat_type
         THEN createDescriber(m_feat_type, m_feat_preset, m_upright)
         ELSE m_describer
  /\ lastCall' = <<"setType", type>>
  /\ UNCHANGED <<m_feat_type, m_feat_preset, m_upright>>
  /\ UNCHANGED <<edges, plainVars, biVars, ufVars, gpuVars>>

\* Lines 70-77.
setPreset(preset) ==
  /\ IF preset # m_feat_preset
       THEN /\ m_feat_preset' = preset
            /\ m_describer' = createDescriber(m_feat_type, preset, m_upright)
       ELSE UNCHANGED <<m_feat_preset, m_describer>>
  /\ lastCall' = <<"setPreset", preset>>
  /\ UNCHANGED <<m_feat_type, m_upright>>
  /\ UNCHANGED <<edges, plainVars, biVars, ufVars, gpuVars>>

\* Lines 91-98.
setUpright(ur) ==
  /\ IF ur # m_upright
       THEN /\ m_upright' = ur
            /\ m_describer' = createDescriber(m_feat_type, m_feat_preset, ur)
       ELSE UNCHANGED <<m_upright, m_describer>>
  /\ lastCall' = <<"setUpright", ur>>
  /\ UNCHANGED <<m_feat_type, m_feat_preset>>
  /\ UNCHANGED <<edges, plainVars, biVars, ufVars, gpuVars>>

\* Lines 42-45, 62-65, 83-86 and 104-107: the getters.
type == m_feat_type

preset == m_feat_preset

upright == m_upright

describer == m_describer

-----------------------------------------------------------------------------
(* The in-place image functions, one step per statement.                   *)

otherVars == <<edges, plainVars, biVars, ufVars, fpVars>>

\* return false
ReturnFalse ==
  /\ gpu_ret' = "false"
  /\ gpu_pc' = "done"

\* A call of fn(res, imgA, imgB, ctx) on three image objects.
Call(fn) ==
  /\ gpu_pc = "idle"
  /\ gpu_fn' = fn
  /\ \E a \in Images, b \in Images, r \in Images :
       /\ imgA' = a
       /\ imgB' = b
       /\ res' = r
  /\ gpu_pc' = "formatA"
  /\ UNCHANGED <<locals, krn, kernelArgs, kernelRun, failedQuery, gpu_ret>>
  /\ UNCHANGED otherVars

\* Line 139.
ImageAdd == Call("ImageAdd")

\* Line 365.
ImageSub == Call("ImageSub")

\* Line 591.
ImageMul == Call("ImageMul")

\* Lines 142-203: one clGetImageInfo call; the function returns false when
\* the call does not give CL_SUCCESS.
GPU_Query ==
  /\ \E k \in 1..Len(Queries) :
       /\ gpu_pc = Queries[k]
       /\ \E err \in {"CL_SUCCESS", "CL_INVALID_MEM_OBJECT"} :
            IF err # "CL_SUCCESS"
              THEN /\ ReturnFalse
                   /\ failedQuery' = Queries[k]
                   /\ UNCHANGED locals
              ELSE /\ locals' = [locals EXCEPT
                                   ![Queries[k]] =
                                     clGetImageInfo(imgA, imgB, res, Queries[k])]
                   /\ gpu_pc' = AfterQuery(Queries[k])
                   /\ UNCHANGED <<failedQuery, gpu_ret>>
  /\ UNCHANGED <<gpu_fn, imgA, imgB, res, krn, kernelArgs, kernelRun>>
  /\ UNCHANGED otherVars

\* Lines 160-166.
GPU_CheckFormats ==
  /\ gpu_pc = "checkFormats"
  /\ IF FormatsDiffer(locals)
       THEN ReturnFalse
       ELSE gpu_pc' = "widthA" /\ UNCHANGED gpu_ret
  /\ UNCHANGED <<gpu_fn, imgA, imgB, res, locals, krn, kernelArgs, kernelRun,
                 failedQuery>>
  /\ UNCHANGED otherVars

\* Lines 205-211.
GPU_CheckSizes ==
  /\ gpu_pc = "checkSizes"
  /\ IF SizesDiffer(locals)
       THEN ReturnFalse
       ELSE gpu_pc' = "selectKernel" /\ UNCHANGED gpu_ret
  /\ UNCHANGED <<gpu_fn, imgA, imgB, res, locals, krn, kernelArgs, kernelRun,
                 failedQuery>>
  /\ UNCHANGED otherVars

\* Lines 215-227.
GPU_SelectKernel ==
  /\ gpu_pc = "selectKernel"
  /\ LET k == StandardKernel(gpu_fn, locals.formatA.image_channel_data_type)
     IN IF k = "none"
          THEN ReturnFalse /\ UNCHANGED krn
          ELSE /\ krn' = k
               /\ gpu_pc' = "setArgs"
               /\ UNCHANGED gpu_ret
  /\ UNCHANGED <<gpu_fn, imgA, imgB, res, locals, kernelArgs, kernelRun,
                 failedQuery>>
  /\ UNCHANGED otherVars

\* Lines 230-232: clSetKernelArg for res, imgA and imgB.
GPU_SetArgs ==
  /\ gpu_pc = "setArgs"
  /\ kernelArgs' = <<res, imgA, imgB>>
  /\ gpu_pc' = "run"
  /\ UNCHANGED <<gpu_fn, imgA, imgB, res, locals, krn, kernelRun, failedQuery,
                 gpu_ret>>
  /\ UNCHANGED otherVars

\* Lines 234-244: ctx.runKernel2d(krn, size) and the two returns.
GPU_Run ==
  /\ gpu_pc = "run"
  /\ \E ok \in BOOLEAN :
       /\ kernelRun' = IF ok THEN "succeeded" ELSE "failed"
       /\ gpu_ret' = IF ok THEN "true" ELSE "false"
  /\ gpu_pc' = "done"
  /\ UNCHANGED <<gpu_fn, imgA, imgB, res, locals, krn, kernelArgs, failedQuery>>
  /\ UNCHANGED otherVars

-----------------------------------------------------------------------------
(* The graph of an edge list, stated on the entities themselves.           *)

\* The entities that are an endpoint of some edge.
Entities(es) == UNION {{es[k][1], es[k][2]} : k \in 1..Len(es)}

\* The entities one edge of ks away from a member of S.
Neighbours(es, ks, S) ==
  {b \in Entities(es) : \E k \in ks : \E a \in S : {es[k][1], es[k][2]} = {a, b}}

\* The entities joined to a member of S by a path of edges of ks.
RECURSIVE Reachable(_, _, _)
Reachable(es, ks, S) ==
  IF Neighbours(es, ks, S) \subseteq S
    THEN S
    ELSE Reachable(es, ks, S \cup Neighbours(es, ks, S))

\* The connected components of the graph with every entity of es as a node
\* and the edges of ks.
Components(es, ks) == {Reachable(es, ks, {a}) : a \in Entities(es)}

AllEdges(es) == 1..Len(es)

\* An edge whose removal increases the number of connected components.
IsBridge(es, ks, k) ==
  Cardinality(Components(es, ks \ {k})) > Cardinality(Components(es, ks))

Bridges(es) == {k \in AllEdges(es) : IsBridge(es, AllEdges(es), k)}

BridgeFree(es) == AllEdges(es) \ Bridges(es)

IsLargest(c, comps) == c \in comps /\ \A d \in comps : Cardinality(d) <= Cardinality(c)

\* Position at which an entity is first seen, scanning the pairs left to
\* right, first element before second.
FirstSeen(es, id) ==
  SetMin({2 * k - 1 : k \in {j \in AllEdges(es) : es[j][1] = id}}
         \cup {2 * k : k \in {j \in AllEdges(es) : es[j][2] = id}})

\* The edges erased so far from putativeGraph.
Erased == AllEdges(edges) \ putativeGraph.alive

-----------------------------------------------------------------------------
\* C1 (as stated): for every edge list, KeepLargestCC_Nodes returns exactly
\* the entity set of one connected component of the graph of the edges, and
\* no component has more entities.
C1_AnyList ==
  pcCC = "returned" => IsLargest(node_ids, Components(edges, AllEdges(edges)))

\* C1 (amended): for every non-empty edge list, KeepLargestCC_Nodes returns
\* exactly the entity set of one connected component of the graph of the
\* edges, and no component has more entities.
C1_LargestComponent ==
  (pcCC = "returned" /\ edges # << >>)
    => IsLargest(node_ids, Components(edges, AllEdges(edges)))

C1_Witness ==
  pcCC = "returned" /\ edges = PlainScenario /\ node_ids = {1, 2, 3}

\* C4: when the graph of the edges is connected, KeepLargestCC_Nodes returns
\* every entity that is an endpoint of some edge.
C4_ConnectedKeepsAll ==
  (pcCC = "returned" /\ Cardinality(Components(edges, AllEdges(edges))) <= 1)
    => /\ Cardinality(parent_id) <= 1
       /\ node_ids = Entities(edges)

C4_Witness ==
  /\ pcCC = "returned"
  /\ Cardinality(Components(edges, AllEdges(edges))) = 1
  /\ Cardinality(parent_id) = 1
  /\ Len(edges) >= 2
  /\ Cardinality(node_ids) >= 3

\* The roots of the forest and the members of a root's set.
Roots(u) == {x \in DOMAIN u.m_cc_parent : u.m_cc_parent[x] = x}

SetOf(u, r) == {x \in DOMAIN u.m_cc_parent : Find(u, x) = r}

\* The roots whose set has the largest cardinality.
LargestRoots(u) ==
  {r \in Roots(u) :
     \A q \in Roots(u) : Cardinality(SetOf(u, q)) <= Cardinality(SetOf(u, r))}

\* C5: when several components are present, KeepLargestCC_Nodes retains the
\* largest one, and among several largest ones the one whose union-find root
\* has the smallest index.
C5_SmallestRootWins ==
  (pcCC = "returned" /\ Cardinality(parent_id) > 1)
    => /\ max_cc[1] = SetMin(LargestRoots(uf))
       /\ node_ids = {id \in DOMAIN node_to_index :
                        Find(uf, node_to_index[id]) = SetMin(LargestRoots(uf))}

C5_Witness ==
  /\ pcCC = "returned"
  /\ edges = TwoPairs
  /\ Cardinality(LargestRoots(uf)) = 2
  /\ node_ids = {3, 4}

\* C8: every entity returned by KeepLargestCC_Nodes is an endpoint of at
\* least one input edge.
C8_OnlyEndpoints ==
  pcCC = "returned" => node_ids \subseteq Entities(edges)

C8_Witness ==
  /\ pcCC = "returned"
  /\ Cardinality(parent_id) > 1
  /\ node_ids # {}
  /\ node_ids # Entities(edges)

\* C2 (as stated): for every edge list, CleanGraph_KeepLargestBiEdge_Nodes
\* returns exactly the original identifiers of one connected component of
\* the graph without its bridges, and no component of that graph is larger.
C2_AnyList ==
  pcBi = "returned"
    => IsLargest(largestBiEdgeCC, Components(edges, BridgeFree(edges)))

\* C2 (amended): for every non-empty edge list,
\* CleanGraph_KeepLargestBiEdge_Nodes returns exactly the original
\* identifiers of one connected component of the graph without its bridges,
\* and no component of that graph is larger.
C2_LargestBridgeFreeComponent ==
  (pcBi = "returned" /\ edges # << >>)
    => IsLargest(largestBiEdgeCC, Components(edges, BridgeFree(edges)))

C2_Witness ==
  /\ pcBi = "returned"
  /\ edges = TriangleWithTail
  /\ Bridges(edges) # {}
  /\ largestBiEdgeCC = {1, 2, 3}

\* C3: the bridge loop erases only bridges of the input graph, and when it
\* has ended exactly the bridges are erased; for two triangles joined by one
\* edge that one edge is erased, two components are found and the three
\* entities of one triangle are returned.
C3_ErasesExactlyBridges ==
  /\ pcBi = "bridges" => Erased \subseteq Bridges(edges)
  /\ pcBi = "select"
       => /\ Erased = Bridges(edges)
          /\ {k \in DOMAIN cutMap : cutMap[k]} = Bridges(edges)
  /\ (pcBi = "select" /\ edges \in {TwoTriangles, TwoTrianglesLateFirst})
       => /\ Cardinality(Erased) = 1
          /\ \A k \in Erased : {edges[k][1], edges[k][2]} = {3, 4}
  /\ (pcBi = "returned" /\ edges \in {TwoTriangles, TwoTrianglesLateFirst})
       => /\ Cardinality(DOMAIN map_subgraphs) = 2
          /\ largestBiEdgeCC \in {{1, 2, 3}, {4, 5, 6}}

C3_Witness ==
  /\ pcBi = "returned"
  /\ edges = TwoTrianglesLateFirst
  /\ Cardinality(DOMAIN map_subgraphs) = 2
  /\ largestBiEdgeCC = {4, 5, 6}

\* C6: when the graph without its bridges has several largest components,
\* CleanGraph_KeepLargestBiEdge_Nodes retains the one holding the entity of
\* lowest index, the index of an entity being its rank in first-seen order;
\* the two triangles 1-2-3 and 4-5-6 joined by (3,4) give {1,2,3}.
C6_LowestIndexedWins ==
  pcBi = "returned"
    => LET comps == Components(edges, BridgeFree(edges))
           tied  == {c \in comps : IsLargest(c, comps)}
           Low(c) == SetMin({FirstSeen(edges, id) : id \in c})
       IN /\ Cardinality(tied) > 1
               => /\ largestBiEdgeCC \in tied
                  /\ \A c \in tied : Low(largestBiEdgeCC) <= Low(c)
          /\ edges = TwoTriangles => largestBiEdgeCC = {1, 2, 3}

C6_Witness ==
  /\ pcBi = "returned"
  /\ edges = TwoTriangles
  /\ Cardinality(DOMAIN map_subgraphs) = 2
  /\ \A l \in DOMAIN map_subgraphs : Cardinality(map_subgraphs[l]) = 3
  /\ largestBiEdgeCC = {1, 2, 3}

\* C7: on the empty edge list both functions can be run, return, and return
\* the empty set.
C7_EmptyListGivesEmptySet ==
  edges = << >>
    => /\ (pcCC = "idle" /\ pcBi = "idle") => ENABLED KeepLargestCC_Nodes
       /\ pcBi = "idle" => ENABLED BiEdge_Start
       /\ pcBi = "bridges" => ENABLED (BiEdge_EraseStep \/ BiEdge_LoopExit)
       /\ pcBi = "select" => ENABLED BiEdge_Select
       /\ pcCC = "returned" => node_ids = {}
       /\ pcBi = "returned" => largestBiEdgeCC = {}

C7_Witness ==
  /\ edges = << >>
  /\ pcCC = "returned"
  /\ pcBi = "returned"
  /\ node_ids = {}
  /\ largestBiEdgeCC = {}

\* Two different edges joining the same two nodes.
Parallel(k1, k2) ==
  k1 # k2 /\ {edges[k1][1], edges[k1][2]} = {edges[k2][1], edges[k2][2]}

\* C9: of two parallel edges between the same two nodes neither is marked as
\* a bridge, and neither is erased by the bridge loop.
C9_ParallelEdgesKept ==
  pcBi \in {"bridges", "select"}
    => \A k1, k2 \in AllEdges(edges) :
         Parallel(k1, k2) => ~cutMap[k1] /\ k1 \in putativeGraph.alive

C9_Witness ==
  /\ pcBi = "select"
  /\ Erased # {}
  /\ \E k1, k2 \in AllEdges(edges) :
       /\ Parallel(k1, k2)
       /\ edges[k1][1] # edges[k1][2]
       /\ {k1, k2} \subseteq putativeGraph.alive

\* C10: once the bridge loop has ended, no edge left in the graph is a bridge
\* of the graph that is left.
C10_NoBridgeLeft ==
  pcBi = "select"
    => \A k \in putativeGraph.alive : ~IsBridge(edges, putativeGraph.alive, k)

C10_Witness ==
  /\ pcBi = "select"
  /\ Erased # {}
  /\ putativeGraph.alive # {}
  /\ Cardinality(Components(edges, putativeGraph.alive)) >= 2


-----------------------------------------------------------------------------
(* Claims C12 and C13: the disjoint-set forest on its own (SpecUF).        *)

\* A Union call has been made on the forest.
UnionCalled == lastUnion.a # INVALID

\* The size recorded at the root of x's set in forest f.
SizeOfSet(f, x) == f.m_cc_size[Find(f, x)]

\* The elements of forest f.
Elements(f) == DOMAIN f.m_cc_parent

\* C12 as stated: after union(a, b), find(a) = find(b) and size[find(a)] is
\* the sum of the sizes a's set and b's set had before the call, whatever
\* the two sets were.
C12_UnionSumsSizes ==
  UnionCalled =>
    /\ Find(uf, lastUnion.a) = Find(uf, lastUnion.b)
    /\ SizeOfSet(uf, lastUnion.a) =
         SizeOfSet(lastUnion.before, lastUnion.a)
           + SizeOfSet(lastUnion.before, lastUnion.b)

\* C12 amended: after union(a, b), find(a) = find(b); when a and b were in
\* two different sets, size[find(a)] is the sum of the sizes the two sets
\* had before the call; when they were already in one set, the forest is
\* left as it was, so size[find(a)] is the size that set had.
C12_UnionSumsSizesOfDistinctSets ==
  UnionCalled =>
    /\ Find(uf, lastUnion.a) = Find(uf, lastUnion.b)
    /\ IF Find(lastUnion.before, lastUnion.a) # Find(lastUnion.before, lastUnion.b)
         THEN SizeOfSet(uf, lastUnion.a) =
                SizeOfSet(lastUnion.before, lastUnion.a)
                  + SizeOfSet(lastUnion.before, lastUnion.b)
         ELSE /\ uf = lastUnion.before
              /\ SizeOfSet(uf, lastUnion.a) =
                   SizeOfSet(lastUnion.before, lastUnion.a)

\* Two sets of two elements each have just been merged into one of four.
C12_Witness ==
  /\ UnionCalled
  /\ SizeOfSet(lastUnion.before, lastUnion.a) = 2
  /\ SizeOfSet(lastUnion.before, lastUnion.b) = 2
  /\ Find(lastUnion.before, lastUnion.a) # Find(lastUnion.before, lastUnion.b)
  /\ SizeOfSet(uf, lastUnion.a) = 4

\* C13: after InitSets(n) and any sequence of Union calls on indices of
\* [0, n), the size kept at every root is the number of elements whose
\* representative is that root, and find(find(x)) = find(x) for every x.
C13_SizesCountMembers ==
  \A x \in Elements(uf) :
    /\ Find(uf, Find(uf, x)) = Find(uf, x)
    /\ uf.m_cc_parent[x] = x =>
         uf.m_cc_size[x] = Cardinality({y \in Elements(uf) : Find(uf, y) = x})

\* A forest of four elements with a root of three members, one of them not
\* attached to the root directly, next to a singleton.
C13_Witness ==
  /\ Elements(uf) = 0..3
  /\ \E r \in Elements(uf) :
       /\ uf.m_cc_parent[r] = r
       /\ uf.m_cc_size[r] = 3
       /\ \E y \in Elements(uf) :
            /\ Find(uf, y) = r
            /\ uf.m_cc_parent[y] # r
  /\ Cardinality({x \in Elements(uf) : uf.m_cc_parent[x] = x}) = 2

-----------------------------------------------------------------------------
(* Claims C14 and C15: FeatureParams (SpecFP).                             *)

\* C14: after setType(t), type() returns t, for every feature type t and
\* every prior state of the object.
C14_SetTypeIsRead ==
  lastCall[1] = "setType" => type = lastCall[2]

\* The describer class and descriptor that stand for a feature type.
KindOf(t) ==
  CASE t = "FEATURE_TYPE_SIFT" -> <<"SIFT_Image_describer", "none">>
    [] t = "FEATURE_TYPE_SIFT_ANATOMY" -> <<"SIFT_Anatomy_Image_describer", "none">>
    [] t = "FEATURE_TYPE_AKAZE_FLOAT" -> <<"AKAZE_Image_describer", "AKAZE_MSURF">>
    [] t = "FEATURE_TYPE_AKAZE_MLDB" -> <<"AKAZE_Image_describer", "AKAZE_MLDB">>

\* The describer preset that stands for a feature preset.
PresetOf(p) ==
  CASE p = "FEATURE_PRESET_NORMAL" -> "NORMAL_PRESET"
    [] p = "FEATURE_PRESET_HIGH" -> "HIGH_PRESET"
    [] p = "FEATURE_PRESET_ULTRA" -> "ULTRA_PRESET"

\* C15: after construction and any sequence of setType, setPreset and
\* setUpright calls, describer() is the describer built for the current
\* type(), preset() and upright(): its kind is that of type(), its preset
\* that of preset(), and its orientation flag is the negation of upright().
C15_DescriberMatchesParameters ==
  /\ <<describer.class, describer.descriptor>> = KindOf(type)
  /\ describer.preset = PresetOf(preset)
  /\ describer.orientation = <<~upright>>

-----------------------------------------------------------------------------
(* Claims C16, C17 and C18: the edges and nodes of putativeGraph.          *)

\* C16: in CleanGraph_KeepLargestBiEdge_Nodes no edge or arc iterator is
\* stepped from an edge that has been erased, neither in the bridge loop
\* (it, itEdge) nor in the loop erasing the edges of the other components (e).
C16_NoIteratorSteppedFromErasedEdge == staleIterators = {}

\* The edges of the list that are no bridge and join two members of S.
BridgeFreeInside(es, S) ==
  {k \in BridgeFree(es) : {es[k][1], es[k][2]} \subseteq S}

\* C17: when CleanGraph_KeepLargestBiEdge_Nodes returns, no entity outside
\* the returned component has an edge left, and the edges left are exactly
\* the edges of the input that are no bridge and lie inside that component.
C17_OnlyRetainedEdgesLeft ==
  pcBi = "returned" =>
    /\ \A k \in putativeGraph.alive :
         {edges[k][1], edges[k][2]} \subseteq largestBiEdgeCC
    /\ putativeGraph.alive = BridgeFreeInside(edges, largestBiEdgeCC)

\* Two pairs joined twice over and one bridge between them: the bridge and
\* the two edges of the pair not selected are gone, the two of the selected
\* pair are left.
C17_Witness ==
  /\ pcBi = "returned"
  /\ edges = ParallelPairs
  /\ largestBiEdgeCC = {1, 2}
  /\ putativeGraph.alive = {1, 2}
  /\ Erased = {3, 4, 5}

\* C18: from the moment the graph is built until the function returns it has
\* one node for every distinct entity of the edge list: erasing bridges and
\* pruning components take no node away.
C18_NodesKept ==
  pcBi # "idle" =>
    /\ putativeGraph.n = Cardinality(Entities(edges))
    /\ DOMAIN putativeGraph.map_nodeMapIndex = Nodes(putativeGraph)
    /\ {putativeGraph.map_nodeMapIndex[x] : x \in Nodes(putativeGraph)}
         = Entities(edges)

\* Two triangles and a bridge: the bridge and one whole triangle have lost
\* their edges and the six nodes are still there.
C18_Witness ==
  /\ pcBi = "returned"
  /\ edges = TwoTriangles
  /\ Cardinality(Erased) = 4
  /\ putativeGraph.n = 6

-----------------------------------------------------------------------------
(* Claims C19 and C20: the registry and the tie between components.        *)

\* C19: the registry built by KeepLargestCC_Nodes maps the distinct entities
\* of the edge list one-to-one onto 0..n-1, an entity seen earlier (pairs
\* left to right, first element before second) getting the smaller index;
\* the forest has n elements, so every index handed to it lies in [0, n).
C19_RegistryIsDenseFirstSeen ==
  pcCC = "returned" =>
    LET n == Cardinality(Entities(edges))
    IN /\ DOMAIN node_to_index = Entities(edges)
       /\ {node_to_index[id] : id \in Entities(edges)} = 0..(n - 1)
       /\ \A a \in Entities(edges), b \in Entities(edges) :
            /\ node_to_index[a] = node_to_index[b] => a = b
            /\ FirstSeen(edges, a) < FirstSeen(edges, b)
                 => node_to_index[a] < node_to_index[b]
       /\ Elements(uf) = 0..(n - 1)
       /\ \A k \in AllEdges(edges) :
            /\ node_to_index[edges[k][1]] \in Elements(uf)
            /\ node_to_index[edges[k][2]] \in Elements(uf)

\* Six entities, the highest identifiers seen first and two seen again.
C19_Witness ==
  /\ pcCC = "returned"
  /\ edges = TriangleWithTail
  /\ node_to_index[5] = 0
  /\ node_to_index[1] = 2
  /\ node_to_index[4] = 5

\* The position at which the first entity of a component is seen.
SeenAt(es, c) == SetMin({FirstSeen(es, id) : id \in c})

\* The largest components of the graph of the edge list.
LargestComponents(es) ==
  {c \in Components(es, AllEdges(es)) : IsLargest(c, Components(es, AllEdges(es)))}

\* C20: when several components of the graph have the same, largest, size,
\* KeepLargestCC_Nodes returns the one of them seen first, that is the one
\* whose first entity occurs earliest in the edge list.
C20_FirstSeenWinsTies ==
  (pcCC = "returned" /\ Cardinality(LargestComponents(edges)) > 1)
    => /\ node_ids \in LargestComponents(edges)
       /\ \A d \in LargestComponents(edges) :
            SeenAt(edges, node_ids) <= SeenAt(edges, d)

-----------------------------------------------------------------------------
(* Claims C21, C23 and C24: relations between runs of KeepLargestCC_Nodes. *)

\* The forests the merge loop of lines 181-186 can end in for a list.
ForestsOf(es) ==
  MergeEdges(es, IndexNodes(es), {InitSets(Cardinality(DOMAIN IndexNodes(es)))})

\* The set lines 190-232 return for a list once the merge loop has ended in
\* forest u.
ReturnedWith(es, u) ==
  LET m == IndexNodes(es)
      roots == ParentIds(es, m, u)
      best == IF Cardinality(roots) = 1
                THEN <<UndefinedIndexT, 0>>
                ELSE MaxCC(u, roots)
  IN NodeIds(es, m, u, roots, best)

\* C21: a pair (a, a) is accepted and changes nothing: appending it for an
\* entity a of the list gives the same registry, the same forests and the
\* same returned set, and Union of an index with itself leaves the forest as
\* it is, so no two components are ever merged by it.
C21_SelfLoopIsNoOp ==
  pcCC = "returned" =>
    \A a \in Entities(edges) :
      LET withLoop == Append(edges, <<a, a>>)
      IN /\ IndexNodes(withLoop) = node_to_index
         /\ ForestsOf(withLoop) = ForestsOf(edges)
         /\ ReturnedWith(withLoop, uf) = node_ids
         /\ Union(uf, node_to_index[a], node_to_index[a]) = {uf}

\* Two components, the larger one returned; a self-loop appended at an
\* entity of either component returns the same three entities.
C21_Witness ==
  /\ pcCC = "returned"
  /\ edges = PlainScenario
  /\ node_ids = {1, 2, 3}
  /\ ReturnedWith(Append(edges, <<1, 1>>), uf) = {1, 2, 3}
  /\ ReturnedWith(Append(edges, <<4, 4>>), uf) = {1, 2, 3}

\* The list with the pairs at positions i and j exchanged.
Swapped(es, i, j) ==
  [k \in 1..Len(es) |-> IF k = i THEN es[j] ELSE IF k = j THEN es[i] ELSE es[k]]

\* The list with the pair at position k turned round.
Flipped(es, k) == [es EXCEPT ![k] = <<es[k][2], es[k][1]>>]

\* The lists one exchange of two pairs or one turn of a pair away from es;
\* every reordering and reorientation is a chain of such steps.
Rearranged(es) ==
  {Swapped(es, i, j) : i \in AllEdges(es), j \in AllEdges(es)}
    \cup {Flipped(es, k) : k \in AllEdges(es)}

\* C23: when one component of the graph is larger than every other,
\* KeepLargestCC_Nodes returns the same set whatever the order of the pairs
\* in the list and whichever way round each pair is written.
C23_OrderAndOrientationFree ==
  (pcCC = "returned" /\ Cardinality(LargestComponents(edges)) = 1)
    => \A other \in Rearranged(edges) :
         \A u \in ForestsOf(other) : ReturnedWith(other, u) = node_ids

\* Two components of three and two entities: some rearranged list numbers
\* the entities differently and still returns the three.
C23_Witness ==
  /\ pcCC = "returned"
  /\ edges = PlainScenario
  /\ node_ids = {1, 2, 3}
  /\ \E other \in Rearranged(edges) :
       /\ IndexNodes(other) # node_to_index
       /\ \A u \in ForestsOf(other) : ReturnedWith(other, u) = {1, 2, 3}

\* C24: with exactly one root, the shortcut of lines 197-205 returns what
\* lines 208-230 would return on the same input; and what lines 208-230
\* return has as many entities as the size kept at the best root.
C24_ShortcutAgreesWithGeneralBranch ==
  pcCC = "returned" =>
    /\ Cardinality(parent_id) = 1 =>
         LET best == MaxCC(uf, parent_id)
         IN /\ best[1] # UndefinedIndexT
            /\ node_ids = CollectOfRoot(edges, node_to_index, uf, best[1])
            /\ Cardinality(node_ids) = best[2]
    /\ Cardinality(parent_id) > 1 =>
         /\ max_cc[1] \in parent_id
         /\ max_cc[2] = uf.m_cc_size[max_cc[1]]
         /\ Cardinality(node_ids) = max_cc[2]

\* Two triangles joined by an edge: one root, and the general branch would
\* also return the six entities.
C24_Witness ==
  /\ pcCC = "returned"
  /\ edges = TwoTriangles
  /\ Cardinality(parent_id) = 1
  /\ Cardinality(node_ids) = 6
  /\ CollectOfRoot(edges, node_to_index, uf, MaxCC(uf, parent_id)[1]) = node_ids

-----------------------------------------------------------------------------
\* C25: for every non-empty edge list CleanGraph_KeepLargestBiEdge_Nodes
\* returns a non-empty set, a node left without edges by the bridge loop
\* being a component of one node; when every edge of the list is a bridge,
\* the returned set has exactly one entity.
C25_NonEmptyListGivesNonEmptySet ==
  (pcBi = "returned" /\ edges # << >>) =>
    /\ largestBiEdgeCC # {}
    /\ largestBiEdgeCC \subseteq Entities(edges)
    /\ Bridges(edges) = AllEdges(edges) => Cardinality(largestBiEdgeCC) = 1

\* A forest of three edges: all three are erased, five components of one
\* node are found and the entity seen first is returned.
C25_Witness ==
  /\ pcBi = "returned"
  /\ edges = PlainScenario
  /\ Bridges(edges) = AllEdges(edges)
  /\ putativeGraph.alive = {}
  /\ Cardinality(DOMAIN map_subgraphs) = 5
  /\ largestBiEdgeCC = {1}

-----------------------------------------------------------------------------
(* Claim C22: the in-place image functions (SpecGPU).                      *)

\* The three images have one channel data type, channel order, width and
\* height.
ImagesAgree == imgA = imgB /\ imgA = res

\* The channel data type of the images is one the kernels exist for.
TypeSupported == imgA.image_channel_data_type \in {"CL_UNSIGNED_INT8", "CL_FLOAT"}

\* The call cannot be served: a query failed, the images differ, or there is
\* no kernel for the data type.
BadCall == failedQuery # "none" \/ ~ImagesAgree \/ ~TypeSupported

\* C22: the in-place ImageAdd, ImageSub and ImageMul return false, without
\* having set a kernel argument or run a kernel, whenever an image query
\* fails, the three images do not share data type, channel order, width and
\* height, or the data type is neither CL_UNSIGNED_INT8 nor CL_FLOAT; they
\* return true only when the kernel of the function for that data type has
\* been given res, imgA and imgB and its run has succeeded.
C22_BadCallReturnsFalseWithoutKernel ==
  /\ (kernelArgs # << >> \/ kernelRun # "none") => ~BadCall
  /\ (gpu_pc = "done" /\ BadCall) =>
       /\ gpu_ret = "false"
       /\ kernelArgs = << >>
       /\ kernelRun = "none"
  /\ gpu_pc = "done" => gpu_ret \in {"true", "false"}
  /\ gpu_ret = "true" =>
       /\ gpu_pc = "done"
       /\ kernelRun = "succeeded"
       /\ krn = StandardKernel(gpu_fn, imgA.image_channel_data_type)
       /\ kernelArgs = <<res, imgA, imgB>>

\* ImageSub on two equal float images and a result image that differs from
\* them in its height only: all nine queries succeeded and false is returned
\* with no kernel argument set.
C22_Witness ==
  /\ gpu_pc = "done"
  /\ gpu_fn = "ImageSub"
  /\ imgA = imgB
  /\ imgA.image_channel_data_type = "CL_FLOAT"
  /\ res = [imgA EXCEPT !.height = 2]
  /\ imgA.height = 1
  /\ locals.heightRes = 2
  /\ failedQuery = "none"
  /\ gpu_ret = "false"
  /\ kernelArgs = << >>
  /\ kernelRun = "none"

Next ==
  \/ AddEdge
  \/ KeepLargestCC_Nodes
  \/ BiEdge_Start
  \/ BiEdge_EraseStep
  \/ BiEdge_LoopExit
  \/ BiEdge_Select

Spec == Init /\ [][Next]_vars

\* A UnionFind object on its own.
InitUF ==
  /\ edges = << >>
  /\ GraphIdle
  /\ FeatureParams("FEATURE_TYPE_SIFT", "FEATURE_PRESET_NORMAL", FALSE)
  /\ GpuIdle

NextUF ==
  \/ UF_InitSets
  \/ UF_Union

SpecUF == InitUF /\ [][NextUF]_vars

\* A FeatureParams object on its own.
InitFP ==
  /\ edges = << >>
  /\ GraphIdle
  /\ \E t \in FeatureTypes, p \in FeaturePresets, ur \in BOOLEAN :
       FeatureParams(t, p, ur)
  /\ GpuIdle

NextFP ==
  \/ \E t \in FeatureTypes : setType(t)
  \/ \E p \in FeaturePresets : setPreset(p)
  \/ \E ur \in BOOLEAN : setUpright(ur)

SpecFP == InitFP /\ [][NextFP]_vars

\* The in-place image functions on their own.
InitGPU ==
  /\ edges = << >>
  /\ GraphIdle
  /\ FeatureParams("FEATURE_TYPE_SIFT", "FEATURE_PRESET_NORMAL", FALSE)
  /\ GpuIdle

NextGPU ==
  \/ ImageAdd
  \/ ImageSub
  \/ ImageMul
  \/ GPU_Query
  \/ GPU_CheckFormats
  \/ GPU_CheckSizes
  \/ GPU_SelectKernel
  \/ GPU_SetArgs
  \/ GPU_Run

SpecGPU == InitGPU /\ [][NextGPU]_vars

====
